---- MODULE Spec2Model ----
(***************************************************************************)
(* State-machine model of the NaturalLanguageQuery component                *)
(* (src/NaturalLanguageQuery.js): the query textarea, the query history,    *)
(* the loading flag and the asynchronous handleSubmit invocations in        *)
(* flight, together with the pure helpers generateMockSQL and               *)
(* generateMockResults.                                                     *)
(*                                                                          *)
(* Text is modelled character by character (a string is a sequence of       *)
(* one-character strings) so that toLowerCase, trim and includes are        *)
(* computed as JavaScript computes them.  A generated SQL string is         *)
(* modelled as the sequence of its lexical tokens <<kind, text>>, kind in   *)
(* kw (keyword), fn (function), id (identifier), lit (literal value),       *)
(* sym (punctuation), in the order they occur in the string.                *)
(*                                                                          *)
(* The handlers are modelled as the functions they are: handleSubmit can    *)
(* run whenever its own early return lets it, also while an earlier         *)
(* invocation is still waiting for its timer (the disabled attributes of    *)
(* the textarea and the button are not guards of the handlers).  Date.now() *)
(* is a clock reading: two readings with no millisecond between them are    *)
(* equal.                                                                   *)
(*                                                                          *)
(* The display-only parts of the component (timestamp, selectedQuery,       *)
(* formatTimestamp, the JSX) carry no state the properties below read and   *)
(* are left out.                                                            *)
(*                                                                          *)
(* Three further parts follow the NaturalLanguageQuery component, each with *)
(* a specification of its own: the adaptive question selector (SelSpec),    *)
(* the statistical estimator (EstSpec), both modelled from their            *)
(* specification and the API document since the repository holds no code    *)
(* for them, and the SurveyBuilder component of src/unnamed/part_003        *)
(* (SbSpec).                                                                *)
(***************************************************************************)
EXTENDS Integers, Sequences, FiniteSets, TLC

VARIABLES
    mounted,    \* the mount effect (useEffect, lines 10-58) has run
    query,      \* useState(''): the textarea's text
    queries,    \* useState([]): the query history, newest first
    isLoading,  \* useState(false)
    pending,    \* handleSubmit invocations suspended at the await (line 79), oldest first
    now,        \* the reading of Date.now(), in milliseconds
    schema,     \* the Fields of the survey the questions are asked about
    \* the adaptive question selector (spec 4.5) and one respondent's session with it
    graph,      \* the survey's Field graph: static linear order and branching rules
    current,    \* the Field being shown to the respondent, or NoField at terminal
    responses,  \* the accumulated responses: answered FieldId -> value
    log,        \* the response log, in the order the answers were given
    decisions,  \* the AdaptiveDecision the selector returned after each logged answer
    replayed,   \* the decisions of the latest replay of a prefix of the log
    \* the statistical estimator (spec 4.4) and the data it is invoked on
    collected,  \* the Responses of the survey, in the order they were collected
    design,     \* the SamplingDesign of the analysis
    estimation, \* the latest invocation of estimate: its arguments and its outcome
    \* the SurveyBuilder component (src/unnamed/part_003) and its parent
    survey,        \* the survey prop: what the parent holds and passes down
    fields,        \* useState(survey?.fields || [])
    selectedField, \* useState(null): the Field object that was clicked, or NoSelection
    notifications, \* how many times onSurveyChange has been called
    lastNotified,  \* the survey passed to the latest call of onSurveyChange
    sbClock        \* the reading of Date.now() in the builder, in milliseconds

nlqVars == <<mounted, query, queries, isLoading, pending, now, schema>>
selVars == <<graph, current, responses, log, decisions, replayed>>
estVars == <<collected, design, estimation>>
sbVars == <<survey, fields, selectedField, notifications, lastNotified, sbClock>>
vars == <<nlqVars, selVars, estVars, sbVars>>

\* the null of nextFieldId: no Field, the terminal state
NoField == "null"

\* each part of the system is explored by a specification of its own; the other
\* parts then stay as they are before anything has happened in them
nlqIdle ==
    /\ mounted = FALSE
    /\ query = <<>>
    /\ queries = <<>>
    /\ isLoading = FALSE
    /\ pending = <<>>
    /\ schema = {}
selIdle ==
    /\ graph = [ order |-> <<>>, rules |-> <<>> ]
    /\ current = NoField
    /\ responses = <<>>
    /\ log = <<>>
    /\ decisions = <<>>
    /\ replayed = <<>>
estIdle ==
    /\ collected = <<>>
    /\ design = [ method |-> "none" ]
    /\ estimation = <<>>
\* selectedField === null
NoSelection == [ id |-> 0 ]
\* onSurveyChange has not been called yet
NoNotification == [ status |-> "none" ]
sbIdle ==
    /\ survey = [ status |-> "draft", title |-> <<>>, description |-> <<>>, fields |-> <<>> ]
    /\ fields = <<>>
    /\ selectedField = NoSelection
    /\ notifications = 0
    /\ lastNotified = NoNotification
    /\ sbClock = 0

----------------------------------------------------------------------------
(* Bounds of the model *)

\* new submissions added to the history on top of the preloaded ones
MaxSubmits == 2
\* milliseconds that may pass between events, besides the timer delays
MaxSkew == 1
\* resolution of Math.random(): it returns k / RandomRes, k in 0 .. RandomRes-1
RandomRes == 2

(* Program constants *)

\* setTimeout(resolve, 2000)
TimerDelay == 2000
\* Array.from({ length: 5 }, ...)
SampleRows == 5
\* Date.now() when the component mounts
Epoch == 100000

\* the milliseconds passed so far that were not spent waiting for a timer
Skew(t) == (t - Epoch) % TimerDelay

----------------------------------------------------------------------------
(* Strings *)

Whitespace == {" ", "\t", "\n"}

UpperToLower ==
    [c \in {"A","C","G","H","M","O","P","T","V","W"} |->
        CASE c = "A" -> "a" [] c = "C" -> "c" [] c = "G" -> "g" [] c = "H" -> "h"
          [] c = "M" -> "m" [] c = "O" -> "o" [] c = "P" -> "p" [] c = "T" -> "t"
          [] c = "V" -> "v" [] c = "W" -> "w"]

\* String.prototype.toLowerCase
toLowerCase(s) ==
    [i \in 1..Len(s) |-> IF s[i] \in DOMAIN UpperToLower THEN UpperToLower[s[i]] ELSE s[i]]

RECURSIVE trimStart(_)
trimStart(s) ==
    IF s # <<>> /\ Head(s) \in Whitespace THEN trimStart(Tail(s)) ELSE s

RECURSIVE trimEnd(_)
trimEnd(s) ==
    IF s # <<>> /\ s[Len(s)] \in Whitespace THEN trimEnd(SubSeq(s, 1, Len(s) - 1)) ELSE s

\* String.prototype.trim
trim(s) == trimEnd(trimStart(s))

\* String.prototype.includes
includes(s, sub) ==
    \E i \in 0..(Len(s) - Len(sub)) : SubSeq(s, i + 1, i + Len(sub)) = sub

\* the decimal digits of a number 0..9, as `${i + 1}` renders them
Digit == <<"1","2","3","4","5","6","7","8","9">>

Range(f) == { f[i] : i \in DOMAIN f }

\* the keywords the two generators look for
kwAverage == <<"a","v","e","r","a","g","e">>
kwAvg == <<"a","v","g">>
kwCount == <<"c","o","u","n","t">>
kwHowMany == <<"h","o","w"," ","m","a","n","y">>
kwTop == <<"t","o","p">>
kwMost == <<"m","o","s","t">>

\* typeof s === 'string'
IsString(s) == s \in Seq(STRING)

\* query.toLowerCase() throws a TypeError when query is not a string
throwsTypeError(q) == ~IsString(q)

----------------------------------------------------------------------------
(* Inputs *)

\* the question of the documented example (API doc, Natural Language to SQL Translation)
exampleQuestion ==
    <<"W","h","a","t"," ","i","s"," ","t","h","e"," ","a","v","e","r","a","g","e"," ","s","a","t","i","s","f","a",
      "c","t","i","o","n"," ","r","a","t","i","n","g"," ","b","y"," ","a","g","e"," ","g","r","o","u","p","?">>

\* what the user can have typed into the textarea (e.target.value)
Questions ==
    { <<>>,
      <<" ">>,
      <<"a","v","e","r","a","g","e">>,
      <<"C","o","u","n","t"," ","A","V","G">>,
      <<"c","o","u","n","t"," ","a","v","g">>,
      <<"H","o","w"," ","m","a","n","y">>,
      <<"c","o","u","n","t"," ","t","o","p">>,
      <<" ","T","o","p"," ">>,
      <<"a","l","m","o","s","t">>,
      <<"t","e","l","l"," ","m","e"," ","a"," ","j","o","k","e">>,
      exampleQuestion }

\* the survey's Fields as the Schema Registry supplies them: getFields(surveyId)
Schemas ==
    { { [ id |-> "satisfaction", type |-> "rating",
          label |-> <<"s","a","t","i","s","f","a","c","t","i","o","n">> ],
        [ id |-> "age_group", type |-> "select",
          label |-> <<"a","g","e"," ","g","r","o","u","p">> ] },
      { [ id |-> "category", type |-> "select",
          label |-> <<"c","a","t","e","g","o","r","y">> ],
        [ id |-> "score", type |-> "number",
          label |-> <<"s","c","o","r","e">> ] },
      { [ id |-> "category", type |-> "select",
          label |-> <<"c","a","t","e","g","o","r","y">> ],
        [ id |-> "score", type |-> "text",
          label |-> <<"s","c","o","r","e">> ] } }

\* the outcomes of one Math.random() call, as numerators k of k / RandomRes
RandomOutcomes == 0..(RandomRes - 1)

----------------------------------------------------------------------------
(* The preloaded history *)

mockQueries ==
    << [ id |-> 1,
         query |-> <<"S","h","o","w"," ","m","e"," ","t","h","e"," ","a","v","e","r","a","g","e"," ","s","a","t","i","s","f","a","c","t","i","o","n"," ","s","c","o","r","e"," ","b","y"," ","a","g","e"," ","g","r","o","u","p">>,
         sql |-> <<
        <<"kw","SELECT">>, <<"id","age_group">>, <<"sym",",">>, <<"fn","AVG">>, <<"sym","(">>,
        <<"id","satisfaction_score">>, <<"sym",")">>, <<"kw","as">>, <<"id","avg_satisfaction">>,
        <<"kw","FROM">>, <<"id","survey_responses">>, <<"kw","GROUP">>, <<"kw","BY">>,
        <<"id","age_group">> >>,
         status |-> "completed",
         results |->
           [ data |-> << [age_group |-> "18-25", avg_satisfaction |-> "4.2"],
                         [age_group |-> "26-35", avg_satisfaction |-> "4.5"],
                         [age_group |-> "36-45", avg_satisfaction |-> "4.1"],
                         [age_group |-> "46-55", avg_satisfaction |-> "4.3"],
                         [age_group |-> "55+", avg_satisfaction |-> "4.4"] >>,
             count |-> 5 ] ],
       [ id |-> 2,
         query |-> <<"W","h","a","t"," ","a","r","e"," ","t","h","e"," ","t","o","p"," ","3"," ","m","o","s","t"," ","c","o","m","m","o","n"," ","c","o","m","p","l","a","i","n","t","s","?">>,
         sql |-> <<
        <<"kw","SELECT">>, <<"id","complaint_category">>, <<"sym",",">>, <<"fn","COUNT">>,
        <<"sym","(">>, <<"sym","*">>, <<"sym",")">>, <<"kw","as">>, <<"id","frequency">>,
        <<"kw","FROM">>, <<"id","feedback">>, <<"kw","WHERE">>, <<"id","sentiment">>, <<"sym","=">>,
        <<"lit","negative">>, <<"kw","GROUP">>, <<"kw","BY">>, <<"id","complaint_category">>,
        <<"kw","ORDER">>, <<"kw","BY">>, <<"id","frequency">>, <<"kw","DESC">>, <<"kw","LIMIT">>,
        <<"lit","3">> >>,
         status |-> "completed",
         results |->
           [ data |-> << [complaint_category |-> "Delivery Issues", frequency |-> 45],
                         [complaint_category |-> "Product Quality", frequency |-> 32],
                         [complaint_category |-> "Customer Service", frequency |-> 28] >>,
             count |-> 3 ] ],
       [ id |-> 3,
         query |-> <<"H","o","w"," ","m","a","n","y"," ","r","e","s","p","o","n","s","e","s"," ","w","e","r","e"," ","s","u","b","m","i","t","t","e","d"," ","l","a","s","t"," ","w","e","e","k","?">>,
         sql |-> <<
        <<"kw","SELECT">>, <<"fn","COUNT">>, <<"sym","(">>, <<"sym","*">>, <<"sym",")">>,
        <<"kw","as">>, <<"id","total_responses">>, <<"kw","FROM">>, <<"id","survey_responses">>,
        <<"kw","WHERE">>, <<"id","created_at">>, <<"sym",">=">>, <<"fn","DATE_SUB">>, <<"sym","(">>,
        <<"fn","NOW">>, <<"sym","(">>, <<"sym",")">>, <<"sym",",">>, <<"kw","INTERVAL">>,
        <<"lit","1">>, <<"kw","WEEK">>, <<"sym",")">> >>,
         status |-> "completed",
         results |->
           [ data |-> << [total_responses |-> 247] >>,
             count |-> 1 ] ] >>

----------------------------------------------------------------------------
(* generateMockSQL and generateMockResults *)

sqlAverage ==
    <<
        <<"kw","SELECT">>, <<"id","category">>, <<"sym",",">>, <<"fn","AVG">>, <<"sym","(">>,
        <<"id","score">>, <<"sym",")">>, <<"kw","as">>, <<"id","average_score">>, <<"kw","FROM">>,
        <<"id","survey_responses">>, <<"kw","GROUP">>, <<"kw","BY">>, <<"id","category">> >>

sqlCount ==
    <<
        <<"kw","SELECT">>, <<"fn","COUNT">>, <<"sym","(">>, <<"sym","*">>, <<"sym",")">>,
        <<"kw","as">>, <<"id","total_count">>, <<"kw","FROM">>, <<"id","survey_responses">>,
        <<"kw","WHERE">>, <<"id","condition">>, <<"sym","=">>, <<"lit","value">> >>

sqlTop ==
    <<
        <<"kw","SELECT">>, <<"id","item">>, <<"sym",",">>, <<"fn","COUNT">>, <<"sym","(">>,
        <<"sym","*">>, <<"sym",")">>, <<"kw","as">>, <<"id","frequency">>, <<"kw","FROM">>,
        <<"id","data_table">>, <<"kw","GROUP">>, <<"kw","BY">>, <<"id","item">>, <<"kw","ORDER">>,
        <<"kw","BY">>, <<"id","frequency">>, <<"kw","DESC">>, <<"kw","LIMIT">>, <<"lit","5">> >>

sqlDefault ==
    <<
        <<"kw","SELECT">>, <<"sym","*">>, <<"kw","FROM">>, <<"id","survey_responses">>,
        <<"kw","WHERE">>, <<"id","relevant_condition">>, <<"sym","=">>, <<"lit","value">>,
        <<"kw","ORDER">>, <<"kw","BY">>, <<"id","created_at">>, <<"kw","DESC">> >>

\* generateMockSQL reading the component's query state instead of its argument
generateMockSQL_readsState(q) ==
    LET lowerQuery == toLowerCase(query) IN
    IF includes(lowerQuery, kwAverage) \/ includes(lowerQuery, kwAvg) THEN sqlAverage
    ELSE IF includes(lowerQuery, kwCount) \/ includes(lowerQuery, kwHowMany) THEN sqlCount
    ELSE IF includes(lowerQuery, kwTop) \/ includes(lowerQuery, kwMost) THEN sqlTop
    ELSE sqlDefault

\* generateMockSQL without the toLowerCase normalisation
generateMockSQL_caseSensitive(q) ==
    IF includes(q, kwAverage) \/ includes(q, kwAvg) THEN sqlAverage
    ELSE IF includes(q, kwCount) \/ includes(q, kwHowMany) THEN sqlCount
    ELSE IF includes(q, kwTop) \/ includes(q, kwMost) THEN sqlTop
    ELSE sqlDefault

\* generateMockSQL without its final else: it returns undefined (no text) there
generateMockSQL_noFallback(q) ==
    LET lowerQuery == toLowerCase(q) IN
    IF includes(lowerQuery, kwAverage) \/ includes(lowerQuery, kwAvg) THEN sqlAverage
    ELSE IF includes(lowerQuery, kwCount) \/ includes(lowerQuery, kwHowMany) THEN sqlCount
    ELSE IF includes(lowerQuery, kwTop) \/ includes(lowerQuery, kwMost) THEN sqlTop
    ELSE <<>>

generateMockSQL(q) ==
    LET lowerQuery == toLowerCase(q) IN
    IF includes(lowerQuery, kwAverage) \/ includes(lowerQuery, kwAvg) THEN sqlAverage
    ELSE IF includes(lowerQuery, kwCount) \/ includes(lowerQuery, kwHowMany) THEN sqlCount
    ELSE IF includes(lowerQuery, kwTop) \/ includes(lowerQuery, kwMost) THEN sqlTop
    ELSE sqlDefault

\* Math.floor(Math.random() * n) + base, for Math.random() = k / RandomRes
randomInt(k, n, base) == ((k * n) \div RandomRes) + base

\* (the generator reporting the row count of the generic branch in every branch)
generateMockResults_genericCount(q, rand) ==
    LET lowerQuery == toLowerCase(q) IN
         IF includes(lowerQuery, kwAverage) \/ includes(lowerQuery, kwAvg) THEN
            [ data |-> << [category |-> "Product", average_score |-> "4.2"],
                          [category |-> "Service", average_score |-> "4.5"],
                          [category |-> "Support", average_score |-> "4.1"] >>,
              count |-> SampleRows ]
         ELSE IF includes(lowerQuery, kwCount) \/ includes(lowerQuery, kwHowMany) THEN
            [ data |-> << [total_count |-> randomInt(rand[1], 1000, 100)] >>,
              count |-> SampleRows ]
         ELSE
            [ data |-> [ i \in 1..SampleRows |->
                           [ id |-> i,
                             value |-> <<"S","a","m","p","l","e"," ","d","a","t","a"," ">> \o <<Digit[i]>>,
                             score |-> randomInt(rand[i], 5, 1) ] ],
              count |-> SampleRows ]

\* rand[i] is the outcome of the i-th Math.random() call of this invocation
generateMockResults(q, rand) ==
    LET lowerQuery == toLowerCase(q) IN
         IF includes(lowerQuery, kwAverage) \/ includes(lowerQuery, kwAvg) THEN
            [ data |-> << [category |-> "Product", average_score |-> "4.2"],
                          [category |-> "Service", average_score |-> "4.5"],
                          [category |-> "Support", average_score |-> "4.1"] >>,
              count |-> 3 ]
         ELSE IF includes(lowerQuery, kwCount) \/ includes(lowerQuery, kwHowMany) THEN
            [ data |-> << [total_count |-> randomInt(rand[1], 1000, 100)] >>,
              count |-> 1 ]
         ELSE
            [ data |-> [ i \in 1..SampleRows |->
                           [ id |-> i,
                             value |-> <<"S","a","m","p","l","e"," ","d","a","t","a"," ">> \o <<Digit[i]>>,
                             score |-> randomInt(rand[i], 5, 1) ] ],
              count |-> 5 ]

----------------------------------------------------------------------------
(* The component *)

Init ==
    /\ mounted = FALSE
    /\ query = <<>>
    /\ queries = <<>>
    /\ isLoading = FALSE
    /\ pending = <<>>
    /\ now = Epoch
    /\ schema \in Schemas
    /\ selIdle
    /\ estIdle
    /\ sbIdle

\* useEffect(() => { ... setQueries(mockQueries) }, []): runs once, after the first
\* render and before any event is handled
Mount ==
    /\ ~mounted
    /\ mounted' = TRUE
    /\ queries' = mockQueries
    /\ UNCHANGED <<query, isLoading, pending, now, schema>>
    /\ UNCHANGED <<selVars, estVars, sbVars>>

\* onChange={(e) => setQuery(e.target.value)}
SetQuery(text) ==
    /\ mounted
    /\ Len(queries) < Len(mockQueries) + MaxSubmits
    /\ query' = text
    /\ UNCHANGED <<mounted, queries, isLoading, pending, now, schema>>
    /\ UNCHANGED <<selVars, estVars, sbVars>>

\* handleSubmit up to its await: the guard is its early return; the invocation then
\* waits for its timer
handleSubmit ==
    /\ mounted
    /\ Len(queries) < Len(mockQueries) + MaxSubmits
    /\ trim(query) # <<>>
    /\ LET newQuery == [ id |-> now, query |-> trim(query), status |-> "processing" ] IN
       /\ isLoading' = TRUE
       /\ queries' = <<newQuery>> \o queries
       /\ query' = <<>>
       /\ pending' = Append(pending, [ id |-> newQuery.id, query |-> query,
                                       due |-> now + TimerDelay ])
    /\ UNCHANGED <<mounted, now, schema>>
    /\ UNCHANGED <<selVars, estVars, sbVars>>

\* (the continuation after the await with an update that matches no entry: the timer
\* fires and the finally block runs, but the history is left as it is)
Resolve_matchesNothing ==
    /\ pending # <<>>
    /\ now' = IF now < Head(pending).due THEN Head(pending).due ELSE now
    /\ isLoading' = FALSE
    /\ pending' = Tail(pending)
    /\ UNCHANGED <<mounted, query, queries, schema>>
    /\ UNCHANGED <<selVars, estVars, sbVars>>

\* handleSubmit from the await on: the timer of the oldest suspended invocation fires
\* (equal delays fire in the order they were set), no earlier than its due time, and
\* the rest of the try block, the catch block when it threw, and the finally block run
Resolve ==
    /\ pending # <<>>
    /\ now' = IF now < Head(pending).due THEN Head(pending).due ELSE now
    /\ \E rand \in [1..SampleRows -> RandomOutcomes] :
         LET r == Head(pending)
             mockSQL == generateMockSQL(r.query)
             mockResults == generateMockResults(r.query, rand)
         IN  queries' =
               [ i \in 1..Len(queries) |->
                   LET q == queries[i] IN
                   IF q.id # r.id THEN q
                   ELSE IF throwsTypeError(r.query)
                        THEN [ f \in DOMAIN q \cup {"status", "error"} |->
                                 CASE f = "status" -> "failed"
                                   [] f = "error" -> "Failed to process query"
                                   [] OTHER -> q[f] ]
                        ELSE [ f \in DOMAIN q \cup {"sql", "results", "status"} |->
                                 CASE f = "sql" -> mockSQL
                                   [] f = "results" -> mockResults
                                   [] f = "status" -> "completed"
                                   [] OTHER -> q[f] ] ]
    /\ isLoading' = FALSE
    /\ pending' = Tail(pending)
    /\ UNCHANGED <<mounted, query, schema>>
    /\ UNCHANGED <<selVars, estVars, sbVars>>

\* a millisecond passes
Tick ==
    /\ Skew(now) < MaxSkew
    /\ now' = now + 1
    /\ UNCHANGED <<mounted, query, queries, isLoading, pending, schema>>
    /\ UNCHANGED <<selVars, estVars, sbVars>>

Next ==
    \/ Mount
    \/ \E text \in Questions : SetQuery(text)
    \/ handleSubmit
    \/ Resolve
    \/ Tick

Spec == Init /\ [][Next]_vars

\* The component under the scheduling that the event loop gives it: a timer that was
\* set does fire, so the continuation of a suspended handleSubmit is not postponed
\* forever.  No action reads the schema, so one schema is enough here, and the
\* questions are one per way through handleSubmit and the generators: blank (early
\* return), an average question, a count question, and one for the final else.
LiveQuestions ==
    { <<" ">>, <<"a","v","e","r","a","g","e">>, <<"H","o","w"," ","m","a","n","y">>,
      <<" ","T","o","p"," ">> }

LiveInit == Init /\ schema = CHOOSE fs \in Schemas : TRUE

LiveNext ==
    \/ Mount
    \/ \E text \in LiveQuestions : SetQuery(text)
    \/ handleSubmit
    \/ Resolve
    \/ Tick

LiveSpec == LiveInit /\ [][LiveNext]_vars /\ WF_vars(Resolve)

----------------------------------------------------------------------------
(* Reading a generated SQL text *)

\* the texts of the tokens of one kind
TokensOf(sql, kind) == { sql[i][2] : i \in { j \in DOMAIN sql : sql[j][1] = kind } }

\* the texts of the tokens that directly follow the keyword kw
Following(sql, kw) ==
    { sql[i + 1][2] : i \in { j \in 1..(Len(sql) - 1) : sql[j] = <<"kw", kw>> } }

\* the statement's verb: its first token
Verb(sql) == IF sql = <<>> THEN "" ELSE sql[1][2]

\* the relations read: FROM <relation>
Relations(sql) == Following(sql, "FROM")

\* the output columns named by the statement: <expr> as <alias>
Aliases(sql) == Following(sql, "as")

\* the column names the statement refers to
FieldRefs(sql) == (TokensOf(sql, "id") \ Relations(sql)) \ Aliases(sql)

\* the columns an aggregate function is applied to: fn ( <column> )
AggregatedFields(sql) ==
    { sql[i + 2][2] : i \in { j \in 1..(Len(sql) - 2) :
                                /\ sql[j][1] = "fn"
                                /\ sql[j + 1] = <<"sym", "(">>
                                /\ sql[j + 2][1] = "id" } }

\* the aggregation the statement computes
Aggregation(sql) ==
    IF <<"fn", "AVG">> \in Range(sql) THEN "avg"
    ELSE IF <<"fn", "COUNT">> \in Range(sql) THEN "count"
    ELSE "none"

HasGroupBy(sql) ==
    \E i \in 1..(Len(sql) - 1) : sql[i] = <<"kw", "GROUP">> /\ sql[i + 1] = <<"kw", "BY">>

HasOrderDesc(sql) ==
    /\ \E i \in 1..(Len(sql) - 1) : sql[i] = <<"kw", "ORDER">> /\ sql[i + 1] = <<"kw", "BY">>
    /\ <<"kw", "DESC">> \in Range(sql)

\* the columns the statement groups by: GROUP BY <column>
GroupByFields(sql) ==
    { sql[i + 2][2] : i \in { j \in 1..(Len(sql) - 2) :
                                /\ sql[j] = <<"kw", "GROUP">>
                                /\ sql[j + 1] = <<"kw", "BY">> } }

HasLimit(sql) == <<"kw", "LIMIT">> \in Range(sql)

\* the literal values written into the text of the WHERE clause
FilterLiterals(sql) ==
    { sql[i][2] : i \in { j \in DOMAIN sql :
        /\ sql[j][1] = "lit"
        /\ \E w \in 1..(j - 1) :
             /\ sql[w] = <<"kw", "WHERE">>
             /\ \A k \in w..j : sql[k] \notin { <<"kw", "GROUP">>, <<"kw", "ORDER">>,
                                                <<"kw", "LIMIT">> } } }

----------------------------------------------------------------------------
(* The history entries the properties speak about *)

PreloadedIds == { mockQueries[i].id : i \in DOMAIN mockQueries }

\* the positions of the entries handleSubmit created
Submitted == { i \in DOMAIN queries : queries[i].id \notin PreloadedIds }

\* the positions of the submitted entries that completed
Done == { i \in Submitted : queries[i].status = "completed" }

\* the completed entries whose id no other entry shares: what they carry was written
\* by the one invocation that created them
Own == { i \in Done : \A j \in DOMAIN queries : j # i => queries[j].id # queries[i].id }

HasAvgKeyword(t) == includes(t, kwAverage) \/ includes(t, kwAvg)
HasCountKeyword(t) == includes(t, kwHowMany) \/ includes(t, kwCount)
HasTopKeyword(t) == includes(t, kwTop) \/ includes(t, kwMost)

----------------------------------------------------------------------------
(* The plan gate and the rendered-query check of the design (spec 4.2, 4.3), applied  *)
(* to what the component generates                                                    *)

FieldIds(registry) == { f.id : f \in registry }

\* the types avg and sum accept
NumericTypes == {"number", "rating"}

\* the relations that hold survey responses
SurveyRelations == {"survey_responses", "responses"}

\* the statement verbs the validator lets through
VerbWhitelist == {"SELECT"}

\* the intent a generated statement expresses
QueryIntentOf(rawText, sql) ==
    [ rawText |-> rawText,
      aggregation |-> Aggregation(sql),
      fields |-> FieldRefs(sql),
      aggregated |-> AggregatedFields(sql) ]

\* build: (a) every referenced Field exists, (b) avg and sum need a numeric target
build(intent, registry) ==
    [ intent |-> intent,
      safety |->
        IF ~(intent.fields \subseteq FieldIds(registry)) THEN "rejected"
        ELSE IF /\ intent.aggregation \in {"avg", "sum"}
                /\ \E f \in registry : f.id \in intent.aggregated /\ f.type \notin NumericTypes
             THEN "rejected"
        ELSE "safe" ]

\* validate: a whitelisted verb, survey-response relations only, no unresolved identifier
validate(sql, registry) ==
    /\ Verb(sql) \in VerbWhitelist
    /\ Relations(sql) # {}
    /\ Relations(sql) \subseteq SurveyRelations
    /\ FieldRefs(sql) \subseteq FieldIds(registry)

\* the question names a Field of the survey
MentionsField(t, registry) == \E f \in registry : includes(toLowerCase(t), f.label)

----------------------------------------------------------------------------
(* C1  No rejected plan is executed: every submitted query that completed with SQL   *)
(* and results has a plan that build tags safe.                                       *)
C1_RejectedNeverExecuted ==
    \A i \in Done :
        build(QueryIntentOf(queries[i].query, queries[i].sql), schema).safety = "safe"

(* C2  Every field name that appears in an emitted query resolves to a Field of the  *)
(* survey's schema.                                                                    *)
C2_EmittedFieldsResolve ==
    \A i \in Done : FieldRefs(queries[i].sql) \subseteq FieldIds(schema)

(* C3  Every literal value used in a filter of an emitted query is a bound parameter: *)
(* no literal is written into the query text.                                          *)
C3_FilterLiteralsBound ==
    \A i \in Done : FilterLiterals(queries[i].sql) = {}

(* C4  Every query the program emits passes validate: a SELECT over survey-response  *)
(* relations with every identifier resolved.                                          *)
C4_EmittedQueriesValidate ==
    \A i \in Done : validate(queries[i].sql, schema)

(* C5  parse is deterministic: two submitted questions with the same text, asked of   *)
(* the same schema at whatever times and after whatever earlier questions, get the    *)
(* same generated query text (read from the entries their own invocations wrote).     *)
C5_ParseDeterministic ==
    \A i, j \in Own :
        queries[i].query = queries[j].query => queries[i].sql = queries[j].sql

C5_Witness ==
    \E i, j \in Own :
        /\ i # j
        /\ queries[i].id # queries[j].id
        /\ queries[i].query = queries[j].query

C7_SameQuestionSameOutput ==
    \A i, j \in Own :
        queries[i].query = queries[j].query =>
            /\ queries[i].sql = queries[j].sql
            /\ queries[i].results = queries[j].results

(* C8  Aggregation detection on the lowercased question, in order of precedence:      *)
(* average/avg gives avg; else how many/count gives a plain count; else top/most      *)
(* gives count with group-by, descending order and a limit; else none.  Questions     *)
(* that differ only in letter-casing get the same query.                              *)
C8_AggregationPrecedence ==
    /\ \A i \in Own :
         LET t == toLowerCase(queries[i].query)
             sql == queries[i].sql
         IN  IF HasAvgKeyword(t) THEN Aggregation(sql) = "avg"
             ELSE IF HasCountKeyword(t)
                  THEN Aggregation(sql) = "count" /\ ~HasGroupBy(sql) /\ ~HasLimit(sql)
             ELSE IF HasTopKeyword(t)
                  THEN /\ Aggregation(sql) = "count"
                       /\ HasGroupBy(sql) /\ HasOrderDesc(sql) /\ HasLimit(sql)
             ELSE Aggregation(sql) = "none"
    /\ \A i, j \in Own :
         toLowerCase(queries[i].query) = toLowerCase(queries[j].query)
             => queries[i].sql = queries[j].sql

C8_Witness ==
    \E i, j \in Own :
        /\ queries[i].query # queries[j].query
        /\ toLowerCase(queries[i].query) = toLowerCase(queries[j].query)
        /\ HasAvgKeyword(toLowerCase(queries[i].query))
        /\ HasCountKeyword(toLowerCase(queries[i].query))
        /\ Aggregation(queries[i].sql) = "avg"

(* C9  parse and build are total and never throw: whatever the textarea holds, empty  *)
(* and whitespace-only included, generateMockSQL yields a query text; no submitted    *)
(* question ends as failed; every submitted question that finished has a SELECT text  *)
(* and a plan that build tags safe or rejected.                                       *)
C9_ParseBuildTotal ==
    /\ Verb(generateMockSQL(query)) = "SELECT"
    /\ \A i \in DOMAIN queries : queries[i].status # "failed"
    /\ \A i \in Submitted :
         queries[i].status # "processing" =>
            /\ i \in Done
            /\ Verb(queries[i].sql) = "SELECT"
            /\ build(QueryIntentOf(queries[i].query, queries[i].sql), schema).safety
                 \in {"safe", "rejected"}

C9_Witness ==
    /\ query # <<>>
    /\ trim(query) = <<>>
    /\ \E i \in Done :
         LET t == toLowerCase(queries[i].query)
         IN  ~HasAvgKeyword(t) /\ ~HasCountKeyword(t) /\ ~HasTopKeyword(t)

(* C10  A question with no aggregation keyword and no phrase naming a Field yields    *)
(* aggregation none and no executable query over the response data.                   *)
C10_UninterpretableNotExecuted ==
    \A i \in Done :
        LET t == toLowerCase(queries[i].query)
        IN  (~HasAvgKeyword(t) /\ ~HasCountKeyword(t) /\ ~HasTopKeyword(t)
               /\ ~MentionsField(t, schema))
            => /\ Aggregation(queries[i].sql) = "none"
               /\ Relations(queries[i].sql) \cap SurveyRelations = {}

(* C11  The documented example: "What is the average satisfaction rating by age      *)
(* group?" over the Fields satisfaction (rating) and age_group (select) gives         *)
(* aggregation avg of satisfaction grouped by age_group, naming those two Fields and  *)
(* no other column, with a plan tagged safe.                                          *)
C11_ExampleQuestion ==
    \A i \in Own :
        (/\ queries[i].query = exampleQuestion
         /\ FieldIds(schema) = {"satisfaction", "age_group"})
        => /\ Aggregation(queries[i].sql) = "avg"
           /\ AggregatedFields(queries[i].sql) = {"satisfaction"}
           /\ GroupByFields(queries[i].sql) = {"age_group"}
           /\ FieldRefs(queries[i].sql) = {"satisfaction", "age_group"}
           /\ build(QueryIntentOf(queries[i].query, queries[i].sql), schema).safety = "safe"

(* C12  No internal timers: processing a request starts no timer, so at no moment is  *)
(* a request waiting on a timer the program itself armed.                             *)
C12_NoInternalTimers ==
    pending = <<>>

(* C16  No type-incompatible aggregation gets through: a completed query never        *)
(* applies avg or sum to a Field of the survey that is not of a numeric type.         *)
C16_AggregationTypeCompatible ==
    \A i \in Done :
        Aggregation(queries[i].sql) \in {"avg", "sum"} =>
            \A f \in schema :
                f.id \in AggregatedFields(queries[i].sql) => f.type \in NumericTypes

----------------------------------------------------------------------------
(* The adaptive question selector (spec 4.5)                                 *)
(*                                                                          *)
(* A Field graph is the survey's static linear order of Field ids together  *)
(* with, per Field, its outgoing branching rules in declaration order; a    *)
(* rule is a predicate on one prior response and the Field to show when it  *)
(* holds.  A respondent's session starts at the declared first Field; each  *)
(* answer is logged and the selector is asked for the next Field.           *)

\* answers are points of a rating scale 1..MaxValue
MaxValue == 3
\* requests to the selector in one session
MaxResponses == 5
\* the value of a Field that has no response yet
Unanswered == 0

\* the survey of the documented example: a follow-up for dissatisfied respondents
\* (two rules of satisfaction overlap: both hold for the answer 1)
surveyFollowUp ==
    [ order |-> <<"satisfaction", "rating", "follow_up_dissatisfaction", "comments">>,
      rules |-> [ f \in {"satisfaction", "rating", "follow_up_dissatisfaction", "comments"} |->
                    CASE f = "satisfaction" ->
                           << [ when |-> [ field |-> "satisfaction", op |-> "lte", value |-> 2 ],
                                target |-> "follow_up_dissatisfaction" ],
                              [ when |-> [ field |-> "satisfaction", op |-> "eq", value |-> 1 ],
                                target |-> "comments" ] >>
                      [] f = "rating" ->
                           << [ when |-> [ field |-> "satisfaction", op |-> "gte", value |-> 3 ],
                                target |-> "comments" ] >>
                      [] OTHER -> <<>> ] ]

\* a survey without branching rules
surveyLinear ==
    [ order |-> <<"satisfaction", "rating", "comments">>,
      rules |-> [ f \in {"satisfaction", "rating", "comments"} |-> <<>> ] ]

\* a survey whose last Field sends the respondent back or ends early, depending on
\* earlier answers
surveyRevisit ==
    [ order |-> <<"satisfaction", "rating", "comments">>,
      rules |-> [ f \in {"satisfaction", "rating", "comments"} |->
                    CASE f = "rating" ->
                           << [ when |-> [ field |-> "rating", op |-> "eq", value |-> 3 ],
                                target |-> "satisfaction" ],
                              [ when |-> [ field |-> "satisfaction", op |-> "gte", value |-> 2 ],
                                target |-> "comments" ],
                              [ when |-> [ field |-> "rating", op |-> "gte", value |-> 2 ],
                                target |-> "rating" ] >>
                      [] f = "comments" ->
                           << [ when |-> [ field |-> "rating", op |-> "lte", value |-> 1 ],
                                target |-> "rating" ] >>
                      [] OTHER -> <<>> ] ]

Graphs == { surveyFollowUp, surveyLinear, surveyRevisit }

\* a prior-response predicate holds of the responses so far
Matches(when, resp) ==
    /\ resp[when.field] # Unanswered
    /\ CASE when.op = "eq"  -> resp[when.field] = when.value
         [] when.op = "lte" -> resp[when.field] <= when.value
         [] when.op = "gte" -> resp[when.field] >= when.value

\* the rules are evaluated in declaration order; the first that matches decides
RECURSIVE firstMatch(_, _)
firstMatch(rules, resp) ==
    IF rules = <<>> THEN NoField
    ELSE IF Matches(Head(rules).when, resp) THEN Head(rules).target
    ELSE firstMatch(Tail(rules), resp)

\* (the opposite evaluation: the last rule that matches decides)
RECURSIVE lastMatch(_, _)
lastMatch(rules, resp) ==
    IF rules = <<>> THEN NoField
    ELSE IF Matches(rules[Len(rules)].when, resp) THEN rules[Len(rules)].target
    ELSE lastMatch(SubSeq(rules, 1, Len(rules) - 1), resp)

\* the Field after cur in the static linear order, NoField after the last one
nextInOrder(cur, order) ==
    LET p == CHOOSE i \in 1..Len(order) : order[i] = cur
    IN  IF p < Len(order) THEN order[p + 1] ELSE NoField

terminalDecision ==
    [ nextFieldId |-> NoField, reasoning |-> "complete", surveyComplete |-> TRUE ]

\* (a selector in which a later matching rule overrides an earlier one)
select_lastMatch(cur, resp, g) ==
    IF cur = NoField THEN terminalDecision
    ELSE LET byRule == lastMatch(g.rules[cur], resp)
             next == IF byRule # NoField THEN byRule ELSE nextInOrder(cur, g.order)
         IN  IF next = NoField THEN terminalDecision
             ELSE [ nextFieldId |-> next,
                    reasoning |-> IF byRule # NoField THEN "rule" ELSE "order",
                    surveyComplete |-> FALSE ]

\* (a selector with a hidden counter: it ends the survey once it has been asked twice)
select_hiddenCounter(cur, resp, g) ==
    IF cur = NoField \/ Len(decisions) >= 2 THEN terminalDecision
    ELSE LET byRule == firstMatch(g.rules[cur], resp)
             next == IF byRule # NoField THEN byRule ELSE nextInOrder(cur, g.order)
         IN  IF next = NoField THEN terminalDecision
             ELSE [ nextFieldId |-> next,
                    reasoning |-> IF byRule # NoField THEN "rule" ELSE "order",
                    surveyComplete |-> FALSE ]

\* (a selector that starts the survey over when it is asked at terminal)
select_restarts(cur, resp, g) ==
    IF cur = NoField
    THEN [ nextFieldId |-> g.order[1], reasoning |-> "order", surveyComplete |-> FALSE ]
    ELSE LET byRule == firstMatch(g.rules[cur], resp)
             next == IF byRule # NoField THEN byRule ELSE nextInOrder(cur, g.order)
         IN  IF next = NoField THEN terminalDecision
             ELSE [ nextFieldId |-> next,
                    reasoning |-> IF byRule # NoField THEN "rule" ELSE "order",
                    surveyComplete |-> FALSE ]

\* the selector: the AdaptiveDecision for the Field cur, the responses accumulated so
\* far (the one to cur included) and the Field graph; at terminal it stays at terminal
select(cur, resp, g) ==
    IF cur = NoField THEN terminalDecision
    ELSE LET byRule == firstMatch(g.rules[cur], resp)
             next == IF byRule # NoField THEN byRule ELSE nextInOrder(cur, g.order)
         IN  IF next = NoField THEN terminalDecision
             ELSE [ nextFieldId |-> next,
                    reasoning |-> IF byRule # NoField THEN "rule" ELSE "order",
                    surveyComplete |-> FALSE ]

\* one logged request applied to the accumulated responses
record(resp, entry) ==
    IF entry.field = NoField THEN resp ELSE [ resp EXCEPT ![entry.field] = entry.value ]

noResponses(g) == [ f \in Range(g.order) |-> Unanswered ]

\* replaying a response log from the first Field: the decisions of a fresh run of the
\* selector that is fed the logged answers in order
RECURSIVE replayFrom(_, _, _, _)
replayFrom(cur, resp, entries, g) ==
    IF entries = <<>> THEN <<>>
    ELSE LET answered == record(resp, [ field |-> cur, value |-> Head(entries).value ])
             d == select(cur, answered, g)
         IN  <<d>> \o replayFrom(d.nextFieldId, answered, Tail(entries), g)

SelInit ==
    /\ nlqIdle /\ now = Epoch
    /\ estIdle
    /\ sbIdle
    /\ graph \in Graphs
    /\ current = graph.order[1]
    /\ responses = noResponses(graph)
    /\ log = <<>>
    /\ decisions = <<>>
    /\ replayed = <<>>

\* the respondent answers the Field shown and the selector is asked for the next one
Answer(v) ==
    /\ current # NoField
    /\ Len(log) < MaxResponses
    /\ LET answered == record(responses, [ field |-> current, value |-> v ])
           d == select(current, answered, graph)
       IN  /\ responses' = answered
           /\ log' = Append(log, [ field |-> current, value |-> v ])
           /\ decisions' = Append(decisions, d)
           /\ current' = d.nextFieldId
    /\ UNCHANGED <<graph, replayed>>
    /\ UNCHANGED <<nlqVars, estVars, sbVars>>

\* the selector is asked again after the survey is complete, with no new answer
AskAtTerminal ==
    /\ current = NoField
    /\ Len(log) < MaxResponses
    /\ LET d == select(current, responses, graph)
       IN  /\ log' = Append(log, [ field |-> NoField, value |-> Unanswered ])
           /\ decisions' = Append(decisions, d)
           /\ current' = d.nextFieldId
    /\ UNCHANGED <<graph, responses, replayed>>
    /\ UNCHANGED <<nlqVars, estVars, sbVars>>

\* an independent invocation over a prefix of the log (offline responses synced later)
Replay(k) ==
    /\ replayed' = replayFrom(graph.order[1], noResponses(graph), SubSeq(log, 1, k), graph)
    /\ replayed' # replayed
    /\ UNCHANGED <<graph, current, responses, log, decisions>>
    /\ UNCHANGED <<nlqVars, estVars, sbVars>>

SelNext ==
    \/ \E v \in 1..MaxValue : Answer(v)
    \/ AskAtTerminal
    \/ \E k \in 1..Len(log) : Replay(k)

SelSpec == SelInit /\ [][SelNext]_vars

\* the responses accumulated once the first i requests of the log are recorded
RECURSIVE respAfter(_)
respAfter(i) ==
    IF i = 0 THEN noResponses(graph) ELSE record(respAfter(i - 1), log[i])

\* the rules of the Field of request i that match the responses accumulated by then
matching(i) ==
    { j \in 1..Len(graph.rules[log[i].field]) :
        Matches(graph.rules[log[i].field][j].when, respAfter(i)) }

\* the position of the Field of request i in the static linear order
position(i) ==
    CHOOSE p \in 1..Len(graph.order) : graph.order[p] = log[i].field

(* C13  The transition from the current Field goes to the target of the first rule,   *)
(* in declaration order, whose predicate matches the accumulated responses (a later   *)
(* matching rule never overrides it); with no matching rule, to the next Field of     *)
(* the static linear order; with no further Field, to terminal with                   *)
(* surveyComplete = true and nextFieldId = null.                                      *)
C13_SelectorTransition ==
    \A i \in 1..Len(decisions) :
        log[i].field # NoField =>
            LET rules == graph.rules[log[i].field]
                d == decisions[i]
            IN  /\ matching(i) # {} =>
                     \E j \in matching(i) :
                        /\ \A k \in matching(i) : j <= k
                        /\ d.nextFieldId = rules[j].target
                        /\ ~d.surveyComplete
                /\ (matching(i) = {} /\ position(i) < Len(graph.order)) =>
                        /\ d.nextFieldId = graph.order[position(i) + 1]
                        /\ ~d.surveyComplete
                /\ (matching(i) = {} /\ position(i) = Len(graph.order)) =>
                        /\ d.nextFieldId = NoField
                        /\ d.surveyComplete

\* two rules with different targets match at once, and all three kinds of transition
\* (by rule, by order, to terminal) have been taken
C13_Witness ==
    /\ \E i \in 1..Len(decisions) :
          /\ log[i].field # NoField
          /\ \E j, k \in matching(i) :
                /\ j < k
                /\ graph.rules[log[i].field][j].target # graph.rules[log[i].field][k].target
    /\ \E i \in 1..Len(decisions) : decisions[i].reasoning = "order"
    /\ \E i \in 1..Len(decisions) : decisions[i].surveyComplete

C15_TerminalDecision ==
    /\ \A i \in 1..Len(decisions) :
          /\ (decisions[i].nextFieldId = NoField) <=> decisions[i].surveyComplete
          /\ decisions[i].nextFieldId # NoField =>
                decisions[i].nextFieldId \in Range(graph.order)
    /\ \A i, j \in 1..Len(decisions) :
          (i < j /\ decisions[i].surveyComplete) => decisions[j].nextFieldId = NoField
    /\ (decisions # <<>> /\ decisions[Len(decisions)].surveyComplete) => current = NoField

\* the selector has been asked again after it returned the terminal decision
C15_Witness ==
    \E i, j \in 1..Len(decisions) :
        /\ i < j
        /\ ~decisions[1].surveyComplete
        /\ decisions[i].surveyComplete
        /\ log[j].field = NoField

----------------------------------------------------------------------------
(* The statistical estimator (spec 4.4)                                      *)
(*                                                                          *)
(* Numbers are exact fractions [n, d] in lowest terms with d >= 0.  An       *)
(* IEEE division by zero is a fraction with d = 0: n/0 with n # 0 is an      *)
(* infinity and 0/0 is NaN; the arithmetic below propagates both as          *)
(* floating point does.  A square root is rounded down to a multiple of      *)
(* 1/Precision.                                                              *)

\* Responses collected for one analysis
MaxRespondents == 3
\* the numeric target values are 1..MaxScore
MaxScore == 2
\* population proportions are multiples of 1/PropUnits
PropUnits == 4
\* square roots are computed to 1/Precision
Precision == 100
\* a target-field value with no numeric reading (free text, a skipped answer)
Uncoercible == 0

\* the strata of the stratification variable age_group
Strata == {"18-25", "26-35"}

Abs(x) == IF x < 0 THEN -x ELSE x

RECURSIVE gcd(_, _)
gcd(a, b) == IF b = 0 THEN a ELSE gcd(b, a % b)

\* the fraction n/d
Q(n, d) ==
    IF d = 0 THEN [ n |-> IF n > 0 THEN 1 ELSE IF n < 0 THEN -1 ELSE 0, d |-> 0 ]
    ELSE LET g == gcd(Abs(n), Abs(d))
             sgn == IF d < 0 THEN -1 ELSE 1
         IN  [ n |-> (sgn * n) \div g, d |-> (sgn * d) \div g ]

NaN == Q(0, 0)
isNaN(x) == x.d = 0 /\ x.n = 0
isFinite(x) == x.d # 0

qAdd(a, b) == Q(a.n * b.d + b.n * a.d, a.d * b.d)
qSub(a, b) == Q(a.n * b.d - b.n * a.d, a.d * b.d)
qMul(a, b) == Q(a.n * b.n, a.d * b.d)
qDiv(a, b) == Q(a.n * b.d, a.d * b.n)
\* a <= b; false when either is NaN, as every comparison with NaN is
qLeq(a, b) == ~isNaN(a) /\ ~isNaN(b) /\ a.n * b.d <= b.n * a.d
qAbs(a) == [ n |-> Abs(a.n), d |-> a.d ]

\* the largest r with r * r <= x, by bisection between lo and hi
RECURSIVE isqrtBetween(_, _, _)
isqrtBetween(x, lo, hi) ==
    IF hi - lo <= 1 THEN lo
    ELSE LET mid == (lo + hi) \div 2
         IN  IF mid * mid <= x THEN isqrtBetween(x, mid, hi) ELSE isqrtBetween(x, lo, mid)

isqrt(x) == isqrtBetween(x, 0, IF x < 46340 THEN x + 1 ELSE 46341)

\* Math.sqrt: NaN for NaN and for negative numbers
qSqrt(x) ==
    IF isNaN(x) \/ x.n < 0 THEN NaN
    ELSE IF x.d = 0 THEN x
    ELSE Q(isqrt(x.n * x.d * Precision * Precision), x.d * Precision)

RECURSIVE qSum(_)
qSum(xs) == IF xs = <<>> THEN Q(0, 1) ELSE qAdd(Head(xs), qSum(Tail(xs)))

\* 1e-6: the tolerance of the design check and of the weight identity
Tolerance == Q(1, 1000000)
\* z for the 95% confidence level: 1.96
zScore == Q(196, 100)

\* what the collection pipeline can append: the data mapping of one Response
ResponseData == [ age_group : Strata, satisfaction : {Uncoercible} \cup (1..MaxScore) ]

RECURSIVE unitsOver(_, _)
unitsOver(S, pp) ==
    IF S = {} THEN 0
    ELSE LET s == CHOOSE x \in S : TRUE IN pp[s] + unitsOver(S \ {s}, pp)

\* the strata a design declares
declared(d) == DOMAIN d.populationProportions

\* the sampling designs an analysis can be requested with: no design, proportions for
\* one or both strata of age_group (proportions that miss the sum 1.0 do so by one
\* unit), or a design stratified by a field no Response has
Designs ==
    { [ method |-> "none" ] } \cup
    { [ method |-> "stratified", stratifyBy |-> "age_group", populationProportions |-> pp ] :
        pp \in UNION { { x \in [ D -> 0..PropUnits ] :
                           Abs(unitsOver(D, x) - PropUnits) <= 1 } :
                       D \in (SUBSET Strata) \ {{}} } } \cup
    { [ method |-> "stratified", stratifyBy |-> "region",
        populationProportions |-> [ s \in Strata |-> IF s = "18-25" THEN PropUnits ELSE 0 ] ] }

\* step 1: the numeric values of the target field, non-coercible ones excluded
coerce(rs, targetField) ==
    LET kept == SelectSeq(rs, LAMBDA r : r[targetField] # Uncoercible)
    IN  [ i \in 1..Len(kept) |-> Q(kept[i][targetField], 1) ]

\* the Responses of stratum s
inStratum(rs, field, s) == SelectSeq(rs, LAMBDA r : r[field] = s)

mean(xs) == qDiv(qSum(xs), Q(Len(xs), 1))

\* (the sample variance without the single-observation policy: 0/0 for one value)
variance_unguarded(xs) ==
    qDiv(qSum([ i \in 1..Len(xs) |-> qMul(qSub(xs[i], mean(xs)), qSub(xs[i], mean(xs))) ]),
         Q(Len(xs) - 1, 1))

\* the sample variance (divisor n - 1); of a single observation it is 0 by policy
variance(xs) ==
    IF Len(xs) = 1 THEN Q(0, 1)
    ELSE qDiv(qSum([ i \in 1..Len(xs) |-> qMul(qSub(xs[i], mean(xs)), qSub(xs[i], mean(xs))) ]),
              Q(Len(xs) - 1, 1))

\* (a weight that divides by the stratum's size instead of its share of the sample)
weight_bySize(proportion, n, totalN) ==
    qDiv(proportion, Q(n, 1))

\* the post-stratification weight populationProportions[s] / (n_s / totalN)
weight(proportion, n, totalN) ==
    qDiv(proportion, Q(n, totalN))

RECURSIVE sumOver(_, _)
sumOver(S, f) ==
    IF S = {} THEN Q(0, 1)
    ELSE LET s == CHOOSE x \in S : TRUE IN qAdd(f[s], sumOver(S \ {s}, f))

proportionOf(d, s) == Q(d.populationProportions[s], PropUnits)

\* the preconditions on the design
invalidDesign(rs, d) ==
    /\ d.method = "stratified"
    /\ \/ ~qLeq(qAbs(qSub(sumOver(declared(d), [ s \in declared(d) |-> proportionOf(d, s) ]),
                          Q(1, 1))),
                Tolerance)
       \/ \E i \in 1..Len(rs) : d.stratifyBy \notin DOMAIN rs[i]

\* (a check of the population's sample size only, not of the strata)
insufficientData_populationOnly(rs, targetField, d) ==
    Len(coerce(rs, targetField)) = 0

\* the preconditions on the data: the population, and every declared stratum of a
\* stratified design, has at least one usable Response
insufficientData(rs, targetField, d) ==
    \/ Len(coerce(rs, targetField)) = 0
    \/ /\ d.method = "stratified"
       /\ \A i \in 1..Len(rs) : d.stratifyBy \in DOMAIN rs[i]
       /\ \E s \in declared(d) : Len(coerce(inStratum(rs, d.stratifyBy, s), targetField)) = 0

\* step 2: simple random sampling
estimateSimple(xs) ==
    LET m == mean(xs)
        se == qSqrt(qDiv(variance(xs), Q(Len(xs), 1)))
    IN  [ kind |-> "EstimationResult",
          mean |-> m,
          standardError |-> se,
          confidenceInterval |-> << qSub(m, qMul(zScore, se)), qAdd(m, qMul(zScore, se)) >>,
          sampleSize |-> Len(xs) ]

\* step 3: post-stratification over the declared strata (a Response of no declared
\* stratum is not part of the sample); the shares w_s * n_s / totalN are normalised to
\* sum to 1
estimateStratified(rs, targetField, d) ==
    LET xsOf == [ s \in declared(d) |-> coerce(inStratum(rs, d.stratifyBy, s), targetField) ]
        totalN == unitsOver(declared(d), [ s \in declared(d) |-> Len(xsOf[s]) ])
        w == [ s \in declared(d) |-> weight(proportionOf(d, s), Len(xsOf[s]), totalN) ]
        share == [ s \in declared(d) |-> qMul(w[s], Q(Len(xsOf[s]), totalN)) ]
        total == sumOver(declared(d), share)
        m == qDiv(sumOver(declared(d),
                          [ s \in declared(d) |-> qMul(share[s], mean(xsOf[s])) ]), total)
        var == sumOver(declared(d),
                 [ s \in declared(d) |->
                     qMul(qMul(qDiv(share[s], total), qDiv(share[s], total)),
                          qDiv(variance(xsOf[s]), Q(Len(xsOf[s]), 1))) ])
        se == qSqrt(var)
    IN  [ kind |-> "EstimationResult",
          mean |-> m,
          standardError |-> se,
          confidenceInterval |-> << qSub(m, qMul(zScore, se)), qAdd(m, qMul(zScore, se)) >>,
          sampleSize |-> totalN,
          weights |-> w ]

\* estimate(responses, targetField, design): an EstimationResult or the error it fails with
estimate(rs, targetField, d) ==
    IF invalidDesign(rs, d) THEN [ kind |-> "InvalidDesignError" ]
    ELSE IF insufficientData(rs, targetField, d) THEN [ kind |-> "InsufficientDataError" ]
    ELSE IF d.method = "none" THEN estimateSimple(coerce(rs, targetField))
    ELSE estimateStratified(rs, targetField, d)

EstInit ==
    /\ nlqIdle /\ now = Epoch
    /\ selIdle
    /\ sbIdle
    /\ collected = <<>>
    /\ design \in Designs
    /\ estimation = <<>>

\* the collection pipeline appends a Response
Collect(data) ==
    /\ Len(collected) < MaxRespondents
    /\ collected' = Append(collected, data)
    /\ UNCHANGED <<design, estimation>>
    /\ UNCHANGED <<nlqVars, selVars, sbVars>>

\* the caller invokes estimate on the Responses collected so far
Estimate ==
    /\ estimation' = [ responses |-> collected, targetField |-> "satisfaction",
                       design |-> design,
                       outcome |-> estimate(collected, "satisfaction", design) ]
    /\ estimation' # estimation
    /\ UNCHANGED <<collected, design>>
    /\ UNCHANGED <<nlqVars, selVars, sbVars>>

EstNext ==
    \/ \E data \in ResponseData : Collect(data)
    \/ Estimate

EstSpec == EstInit /\ [][EstNext]_vars

\* the Responses of the latest invocation that have a numeric target value
usable ==
    { i \in 1..Len(estimation.responses) :
        estimation.responses[i][estimation.targetField] # Uncoercible }

\* the sample size of stratum s in the latest invocation
sizeOf(s) ==
    Cardinality({ i \in usable :
                    estimation.responses[i][estimation.design.stratifyBy] = s })

stratifiedCall == estimation.design.method = "stratified"

\* the stratify field is absent from a Response of the latest invocation
fieldAbsent ==
    /\ stratifiedCall
    /\ \E i \in 1..Len(estimation.responses) :
          estimation.design.stratifyBy \notin DOMAIN estimation.responses[i]

\* the proportions of the latest invocation do not sum to 1.0 (a sum that misses it
\* does so by a whole unit, far more than the tolerance)
sumOff ==
    /\ stratifiedCall
    /\ unitsOver(declared(estimation.design), estimation.design.populationProportions)
          # PropUnits

\* the sample size is 0 for the population or for a declared stratum
noData ==
    \/ usable = {}
    \/ /\ stratifiedCall
       /\ ~fieldAbsent
       /\ \E s \in declared(estimation.design) : sizeOf(s) = 0

C18_StandardErrorFinite ==
    (estimation # <<>> /\ estimation.outcome.kind = "EstimationResult") =>
        LET r == estimation.outcome
            oneEach == IF stratifiedCall
                       THEN \A s \in declared(estimation.design) : sizeOf(s) = 1
                       ELSE Cardinality(usable) = 1
        IN  /\ isFinite(r.standardError)
            /\ r.standardError.n >= 0
            /\ isFinite(r.mean)
            /\ oneEach =>
                  /\ r.standardError = Q(0, 1)
                  /\ r.confidenceInterval = << r.mean, r.mean >>

\* a stratified design with one declared stratum and one respondent in it gave a result
C18_Witness ==
    /\ estimation # <<>>
    /\ stratifiedCall
    /\ Cardinality(declared(estimation.design)) = 1
    /\ Cardinality(usable) = 1
    /\ estimation.outcome.kind = "EstimationResult"
    /\ estimation.outcome.sampleSize = 1

----------------------------------------------------------------------------
(* The SurveyBuilder component (src/unnamed/part_003)                        *)
(*                                                                          *)
(* The component holds the Field list in its own state and reports every    *)
(* change to its parent through onSurveyChange; the parent keeps the        *)
(* reported survey and passes it back as the survey prop.  The handlers are *)
(* modelled as the functions they are, called with any Field id and index.  *)
(* A Field is a record; a property that is undefined in JavaScript is a key *)
(* the record does not have (options) or the value Undefined (validation).  *)
(* `field_${Date.now()}` is modelled by the clock reading it contains.       *)

\* changes reported to the parent in one editing session
MaxChanges == 4
\* Fields in the survey
MaxFields == 2
\* options of one Field
MaxOptions == 3
\* undefined, as the value of a validation key
Undefined == -1

FIELD_TYPES ==
    << [ type |-> "text", label |-> <<"T","e","x","t"," ","I","n","p","u","t">> ],
       [ type |-> "textarea", label |-> <<"T","e","x","t"," ","A","r","e","a">> ],
       [ type |-> "number", label |-> <<"N","u","m","b","e","r">> ],
       [ type |-> "email", label |-> <<"E","m","a","i","l">> ],
       [ type |-> "select", label |-> <<"D","r","o","p","d","o","w","n">> ],
       [ type |-> "radio", label |-> <<"R","a","d","i","o"," ","B","u","t","t","o","n","s">> ],
       [ type |-> "checkbox", label |-> <<"C","h","e","c","k","b","o","x","e","s">> ],
       [ type |-> "date", label |-> <<"D","a","t","e">> ],
       [ type |-> "rating", label |-> <<"R","a","t","i","n","g">> ] >>

\* the palette entries dragged in the model (0-based positions in FIELD_TYPES):
\* text, textarea, number, select
PaletteIndices == {0, 1, 2, 4}

\* what the user types into the label, title and description inputs
Texts == { <<"A","g","e">> }
\* what the user types into an option's label input
OptionLabels == { <<"O","p","t","i","o","n","2">>, <<"T","o","p"," "," ","T","w","o">> }
\* what the user types into the number inputs of the validation section
NumberTexts == { <<>>, <<"5">>, <<"1","0">> }

decimalDigits == <<"0","1","2","3","4","5","6","7","8","9">>

\* `${n}` for a non-negative integer
RECURSIVE decimal(_)
decimal(n) ==
    IF n < 10 THEN <<decimalDigits[n + 1]>>
    ELSE decimal(n \div 10) \o <<decimalDigits[(n % 10) + 1]>>

\* parseInt / parseFloat of the text of a number input (digits only)
RECURSIVE parseNumber(_)
parseNumber(t) ==
    IF t = <<>> THEN 0
    ELSE parseNumber(SubSeq(t, 1, Len(t) - 1)) * 10
         + ((CHOOSE i \in 1..10 : decimalDigits[i] = t[Len(t)]) - 1)

\* e.target.value ? parseInt(e.target.value) : undefined
numberOrUndefined(t) == IF t = <<>> THEN Undefined ELSE parseNumber(t)

\* replace(/\s+/g, '_'): every maximal run of whitespace becomes one underscore
RECURSIVE replaceWhitespace(_)
replaceWhitespace(t) ==
    IF t = <<>> THEN <<>>
    ELSE IF Head(t) \in Whitespace
         THEN <<"_">> \o replaceWhitespace(trimStart(Tail(t)))
         ELSE <<Head(t)>> \o replaceWhitespace(Tail(t))

\* the value the properties panel derives from an option's label
optionValueOf(label) == replaceWhitespace(toLowerCase(label))

OptionTypes == {"select", "radio", "checkbox"}

\* {}: no validation key is set
noValidation == [ min |-> Undefined, max |-> Undefined, maxLength |-> Undefined ]

\* the Field a palette drop creates
newField(fieldType, time) ==
    LET base == [ id |-> time,
                  type |-> fieldType.type,
                  label |-> <<"N","e","w"," ">> \o fieldType.label,
                  required |-> FALSE,
                  validation |-> noValidation ]
    IN  IF fieldType.type \in OptionTypes
        THEN [ k \in DOMAIN base \cup {"options"} |->
                 IF k = "options"
                 THEN << [ value |-> <<"o","p","t","i","o","n","1">>,
                           label |-> <<"O","p","t","i","o","n"," ","1">> ] >>
                 ELSE base[k] ]
        ELSE base

\* field.options is defined
hasOptions(f) == "options" \in DOMAIN f

\* { ...a, ...b }
spread(a, b) == [ k \in DOMAIN a \cup DOMAIN b |-> IF k \in DOMAIN b THEN b[k] ELSE a[k] ]

\* list.splice(index, 0, x) on a copy, index 0-based
insertAt(list, index, x) ==
    SubSeq(list, 1, index) \o <<x>> \o SubSeq(list, index + 1, Len(list))

\* list.splice(index, 1) on a copy, index 0-based
removeAt(list, index) ==
    SubSeq(list, 1, index) \o SubSeq(list, index + 2, Len(list))

\* fields.find(f => f.id === fieldId): the positions of the first match (none: {})
find(list, fieldId) ==
    { i \in 1..Len(list) : list[i].id = fieldId /\ \A j \in 1..(i - 1) : list[j].id # fieldId }

\* (a handler that passes the list it read, not the new one, to onSurveyChange)
setAndNotify_reportsOldFields(newFields) ==
    /\ fields' = newFields
    /\ survey' = [ survey EXCEPT !.fields = fields ]
    /\ notifications' = notifications + 1
    /\ lastNotified' = [ survey EXCEPT !.fields = fields ]

\* setFields(newFields); onSurveyChange({ ...survey, fields: newFields })
setAndNotify(newFields) ==
    /\ fields' = newFields
    /\ survey' = [ survey EXCEPT !.fields = newFields ]
    /\ notifications' = notifications + 1
    /\ lastNotified' = [ survey EXCEPT !.fields = newFields ]

\* fields.map(field => field.id === fieldId ? { ...field, ...updates } : field)
updated(fieldId, updates) ==
    [ i \in 1..Len(fields) |->
        IF fields[i].id = fieldId THEN spread(fields[i], updates) ELSE fields[i] ]

SbInit ==
    /\ nlqIdle /\ now = Epoch
    /\ selIdle
    /\ estIdle
    /\ survey = [ status |-> "draft", title |-> <<>>, description |-> <<>>, fields |-> <<>> ]
    /\ fields = survey.fields
    /\ selectedField = NoSelection
    /\ notifications = 0
    /\ lastNotified = NoNotification
    /\ sbClock = Epoch

NoDestination == [ droppableId |-> "none", index |-> 0 ]

\* (handleDragEnd pushing the dragged or the new Field to the end of the list instead
\* of splicing it in at destination.index)
handleDragEnd_appends(source, destination) ==
    /\ notifications < MaxChanges
    /\ IF destination = NoDestination
       THEN UNCHANGED <<fields, survey, notifications, lastNotified>>
       ELSE IF source.droppableId = "field-types" /\ destination.droppableId = "survey-fields"
       THEN /\ Len(fields) < MaxFields
            /\ setAndNotify(Append(fields, newField(FIELD_TYPES[source.index + 1], sbClock)))
       ELSE IF source.droppableId = "survey-fields" /\ destination.droppableId = "survey-fields"
       THEN setAndNotify(Append(removeAt(fields, source.index), fields[source.index + 1]))
       ELSE UNCHANGED <<fields, survey, notifications, lastNotified>>
    /\ UNCHANGED <<selectedField, sbClock>>
    /\ UNCHANGED <<nlqVars, selVars, estVars>>

\* handleDragEnd(result)
handleDragEnd(source, destination) ==
    /\ notifications < MaxChanges
    /\ IF destination = NoDestination
       THEN UNCHANGED <<fields, survey, notifications, lastNotified>>
       ELSE IF source.droppableId = "field-types" /\ destination.droppableId = "survey-fields"
       THEN /\ Len(fields) < MaxFields
            /\ setAndNotify(insertAt(fields, destination.index,
                                     newField(FIELD_TYPES[source.index + 1], sbClock)))
       ELSE IF source.droppableId = "survey-fields" /\ destination.droppableId = "survey-fields"
       THEN setAndNotify(insertAt(removeAt(fields, source.index), destination.index,
                                  fields[source.index + 1]))
       ELSE UNCHANGED <<fields, survey, notifications, lastNotified>>
    /\ UNCHANGED <<selectedField, sbClock>>
    /\ UNCHANGED <<nlqVars, selVars, estVars>>

\* onClick={() => setSelectedField(field)} on the Field at 0-based position index
selectField(index) ==
    /\ index < Len(fields)
    /\ selectedField' = fields[index + 1]
    /\ UNCHANGED <<survey, fields, notifications, lastNotified, sbClock>>
    /\ UNCHANGED <<nlqVars, selVars, estVars>>

\* updateField(fieldId, updates)
updateField(fieldId, updates) ==
    /\ notifications < MaxChanges
    /\ setAndNotify(updated(fieldId, updates))
    /\ UNCHANGED <<selectedField, sbClock>>
    /\ UNCHANGED <<nlqVars, selVars, estVars>>

\* the updates the properties panel passes to onUpdate; it reads the Field object that
\* was selected, not the current entry of fields
panelUpdates ==
    { [ label |-> t ] : t \in Texts } \cup
    { [ required |-> b ] : b \in BOOLEAN } \cup
    ( IF selectedField.type = "text"
      THEN { [ validation |-> [ selectedField.validation EXCEPT
                                  !.maxLength = numberOrUndefined(t) ] ] : t \in NumberTexts }
      ELSE {} ) \cup
    ( IF selectedField.type = "number"
      THEN { [ validation |-> [ selectedField.validation EXCEPT
                                  !.min = numberOrUndefined(t) ] ] : t \in NumberTexts } \cup
           { [ validation |-> [ selectedField.validation EXCEPT
                                  !.max = numberOrUndefined(t) ] ] : t \in NumberTexts }
      ELSE {} )

\* onUpdate={(updates) => updateField(selectedField.id, updates)}
onUpdate ==
    /\ selectedField # NoSelection
    /\ \E updates \in panelUpdates : updateField(selectedField.id, updates)

\* deleteField(fieldId)
deleteField(fieldId) ==
    /\ notifications < MaxChanges
    /\ setAndNotify(SelectSeq(fields, LAMBDA field : field.id # fieldId))
    /\ selectedField' = IF selectedField.id = fieldId THEN NoSelection ELSE selectedField
    /\ UNCHANGED sbClock
    /\ UNCHANGED <<nlqVars, selVars, estVars>>

\* addOption(fieldId)
addOption(fieldId) ==
    /\ notifications < MaxChanges
    /\ IF \E i \in find(fields, fieldId) : hasOptions(fields[i])
       THEN LET field == fields[CHOOSE i \in find(fields, fieldId) : TRUE]
                newOption ==
                    [ value |-> <<"o","p","t","i","o","n">> \o decimal(Len(field.options) + 1),
                      label |-> <<"O","p","t","i","o","n"," ">> \o decimal(Len(field.options) + 1) ]
            IN  /\ Len(field.options) < MaxOptions
                /\ setAndNotify(updated(fieldId, [ options |-> Append(field.options, newOption) ]))
       ELSE UNCHANGED <<fields, survey, notifications, lastNotified>>
    /\ UNCHANGED <<selectedField, sbClock>>
    /\ UNCHANGED <<nlqVars, selVars, estVars>>

\* updateOption(fieldId, optionIndex, updates), optionIndex 0-based
updateOption(fieldId, optionIndex, updates) ==
    /\ notifications < MaxChanges
    /\ IF \E i \in find(fields, fieldId) : hasOptions(fields[i])
       THEN LET field == fields[CHOOSE i \in find(fields, fieldId) : TRUE]
                newOptions ==
                    [ i \in 1..Len(field.options) |->
                        IF i - 1 = optionIndex THEN spread(field.options[i], updates)
                        ELSE field.options[i] ]
            IN  setAndNotify(updated(fieldId, [ options |-> newOptions ]))
       ELSE UNCHANGED <<fields, survey, notifications, lastNotified>>
    /\ UNCHANGED <<selectedField, sbClock>>
    /\ UNCHANGED <<nlqVars, selVars, estVars>>

\* removeOption(fieldId, optionIndex), optionIndex 0-based
removeOption(fieldId, optionIndex) ==
    /\ notifications < MaxChanges
    /\ IF \E i \in find(fields, fieldId) : hasOptions(fields[i]) /\ Len(fields[i].options) > 1
       THEN LET field == fields[CHOOSE i \in find(fields, fieldId) : TRUE]
                newOptions ==
                    IF optionIndex < Len(field.options)
                    THEN removeAt(field.options, optionIndex)
                    ELSE field.options
            IN  setAndNotify(updated(fieldId, [ options |-> newOptions ]))
       ELSE UNCHANGED <<fields, survey, notifications, lastNotified>>
    /\ UNCHANGED <<selectedField, sbClock>>
    /\ UNCHANGED <<nlqVars, selVars, estVars>>

\* onChange of the title input: onSurveyChange({ ...survey, title: e.target.value })
changeTitle(text) ==
    /\ notifications < MaxChanges
    /\ survey' = [ survey EXCEPT !.title = text ]
    /\ notifications' = notifications + 1
    /\ lastNotified' = [ survey EXCEPT !.title = text ]
    /\ UNCHANGED <<fields, selectedField, sbClock>>
    /\ UNCHANGED <<nlqVars, selVars, estVars>>

\* onChange of the description textarea
changeDescription(text) ==
    /\ notifications < MaxChanges
    /\ survey' = [ survey EXCEPT !.description = text ]
    /\ notifications' = notifications + 1
    /\ lastNotified' = [ survey EXCEPT !.description = text ]
    /\ UNCHANGED <<fields, selectedField, sbClock>>
    /\ UNCHANGED <<nlqVars, selVars, estVars>>

\* POST /api/surveys/{survey_id}/publish: the parent holds a published survey from now on
publish ==
    /\ survey.status = "draft"
    /\ survey' = [ survey EXCEPT !.status = "published" ]
    /\ UNCHANGED <<fields, selectedField, notifications, lastNotified, sbClock>>
    /\ UNCHANGED <<nlqVars, selVars, estVars>>

\* a millisecond passes
SbTick ==
    /\ sbClock - Epoch < MaxSkew
    /\ sbClock' = sbClock + 1
    /\ UNCHANGED <<survey, fields, selectedField, notifications, lastNotified>>
    /\ UNCHANGED <<nlqVars, selVars, estVars>>

\* the ids the handlers are called with: those of the Fields, and the selected one's
knownIds == { fields[i].id : i \in 1..Len(fields) } \cup
            (IF selectedField = NoSelection THEN {} ELSE {selectedField.id})

DropAreas == {"field-types", "survey-fields"}

SbNext ==
    \/ \E sourceArea \in DropAreas, sourceIndex \in PaletteIndices \cup (0..(MaxFields - 1)),
          destination \in {NoDestination} \cup
                          [ droppableId : DropAreas, index : 0..MaxFields ] :
          /\ sourceArea = "field-types" => sourceIndex \in PaletteIndices
          /\ sourceArea = "survey-fields" => sourceIndex < Len(fields)
          /\ destination.droppableId = "survey-fields" =>
                destination.index <= Len(fields) - (IF sourceArea = "survey-fields" THEN 1 ELSE 0)
          /\ handleDragEnd([ droppableId |-> sourceArea, index |-> sourceIndex ], destination)
    \/ \E index \in 0..(MaxFields - 1) : selectField(index)
    \/ onUpdate
    \/ \E fieldId \in knownIds : deleteField(fieldId)
    \/ \E fieldId \in knownIds : addOption(fieldId)
    \/ \E fieldId \in knownIds, optionIndex \in 0..(MaxOptions - 1), label \in OptionLabels :
          updateOption(fieldId, optionIndex, [ label |-> label, value |-> optionValueOf(label) ])
    \/ \E fieldId \in knownIds, optionIndex \in 0..(MaxOptions - 1) :
          removeOption(fieldId, optionIndex)
    \/ \E text \in Texts : changeTitle(text)
    \/ \E text \in Texts : changeDescription(text)
    \/ publish
    \/ SbTick

SbSpec == SbInit /\ [][SbNext]_vars

(* C20  Once the survey is published no operation changes its Field list or any       *)
(* Field's type, options or validation: neither the builder's Fields nor the Fields   *)
(* of the survey the parent holds.                                                    *)
C20_PublishedFieldsImmutable ==
    [][ LET \* a Field's definition: its place in the list, its id, type, options and
            \* validation
            definitionsOf(list) ==
                [ i \in 1..Len(list) |->
                    [ k \in DOMAIN list[i] \ {"label", "required"} |-> list[i][k] ] ]
        IN  survey.status = "published" =>
              /\ definitionsOf(fields') = definitionsOf(fields)
              /\ definitionsOf(survey'.fields) = definitionsOf(survey.fields) ]_vars

\* the Field types of the data model
SpecFieldTypes == {"text", "number", "select", "radio", "checkbox", "date", "rating"}

(* C21  Every Field of the survey, in the builder's list and in the survey the parent *)
(* holds, has a type in {text, number, select, radio, checkbox, date, rating}.        *)
C21_FieldTypesOfDataModel ==
    /\ \A i \in 1..Len(fields) : fields[i].type \in SpecFieldTypes
    /\ \A i \in 1..Len(survey.fields) : survey.fields[i].type \in SpecFieldTypes

\* the clock readings a submission can take its id from
SubmitTimes ==
    { Epoch + k * TimerDelay + j : k \in 0..MaxSubmits, j \in 0..MaxSkew }

\* some entry with id t is in status processing
Processing(t) ==
    \E i \in DOMAIN queries : queries[i].id = t /\ queries[i].status = "processing"

\* every entry with id t has reached its final status, with what belongs to it
Settled(t) ==
    \A i \in DOMAIN queries :
        queries[i].id = t =>
            \/ /\ queries[i].status = "completed"
               /\ {"sql", "results"} \subseteq DOMAIN queries[i]
            \/ /\ queries[i].status = "failed"
               /\ "error" \in DOMAIN queries[i]

(* C22  Every submitted non-empty query is first prepended to the history with status *)
(* processing, and eventually reaches status completed (with sql and results) or      *)
(* failed (with error); when it does, isLoading is false.  No entry stays in          *)
(* processing forever.                                                                *)
C22_EverySubmissionSettles ==
    /\ [][ handleSubmit =>
             /\ Tail(queries') = queries
             /\ queries'[1].status = "processing"
             /\ queries'[1].query = trim(query) /\ queries'[1].query # <<>> ]_vars
    /\ [][ \A t \in SubmitTimes : (Processing(t) /\ ~Processing(t)') =>
                                     (Settled(t)' /\ ~isLoading') ]_vars
    /\ \A t \in SubmitTimes : Processing(t) ~> Settled(t)

\* two submissions have settled, the later one after the earlier one
C22_Witness ==
    /\ Cardinality(Done) = 2
    /\ pending = <<>>
    /\ ~isLoading
    /\ \E i, j \in Done : queries[i].id # queries[j].id

SelectedColumns(sql) ==
    LET fromPosition == CHOOSE p \in 1..Len(sql) :
                            /\ sql[p] = <<"kw", "FROM">>
                            /\ \A j \in 1..(p - 1) : sql[j] # <<"kw", "FROM">>
    IN  { sql[i][2] : i \in { j \in 2..(fromPosition - 1) :
                                sql[j][1] = "id" /\ sql[j - 1] # <<"sym", "(">> } }

(* C24  The rows attached to a completed query have the columns its generated SQL     *)
(* selects: the two generators put every question into the same branch.  (A         *)
(* statement that selects * names no columns and is left out.)                        *)
C24_ResultColumnsMatchSQL ==
    \A i \in Own :
        queries[i].sql[2] # <<"sym", "*">> =>
            \A r \in DOMAIN queries[i].results.data :
                DOMAIN queries[i].results.data[r] = SelectedColumns(queries[i].sql)

(* C25  Every entry that carries results, preloaded or completed by a submission,     *)
(* reports as results.count the number of rows of results.data, and an entry has      *)
(* sql and results exactly when its status is completed.                              *)
C25_ResultCountIsRowCount ==
    \A i \in DOMAIN queries :
        /\ "results" \in DOMAIN queries[i] =>
               queries[i].results.count = Len(queries[i].results.data)
        /\ ({"sql", "results"} \subseteq DOMAIN queries[i]) <=> (queries[i].status = "completed")
        /\ ({"sql", "results"} \cap DOMAIN queries[i] # {}) => (queries[i].status = "completed")

\* the history holds the preloaded entries, a completed submission of the average, of
\* the count or of the generic branch, and an entry that is still processing
C25_Witness ==
    /\ \E i \in DOMAIN queries : queries[i].id \in PreloadedIds
    /\ \E i \in Own : Len(queries[i].results.data) \in {1, 3}
    /\ \E i \in DOMAIN queries : queries[i].status = "processing"

(* C26  An edit made through the properties panel changes at most the one validation  *)
(* key that was edited and leaves the other keys of the Field's validation as they    *)
(* were: after Min and then Max are set on the selected number field, both are kept.  *)
C26_PanelEditKeepsOtherKeys ==
    [][ onUpdate =>
          \A i \in 1..Len(fields) :
              fields[i].id = selectedField.id =>
                  Cardinality({ k \in DOMAIN noValidation :
                                  fields[i].validation[k] # fields'[i].validation[k] }) <= 1 ]_vars

(* C27  After any sequence of addOption, updateOption and removeOption on a field     *)
(* with options, the option values of the field are pairwise distinct.                *)
C27_OptionValuesDistinct ==
    \A i \in 1..Len(fields) :
        hasOptions(fields[i]) =>
            \A a, b \in 1..Len(fields[i].options) :
                fields[i].options[a].value = fields[i].options[b].value => a = b

(* C28  Every select, radio or checkbox field of the builder has at least one option, *)
(* and every field of another type has no options list.                               *)
C28_OptionsOnlyOnOptionTypes ==
    \A i \in 1..Len(fields) :
        IF fields[i].type \in OptionTypes
        THEN hasOptions(fields[i]) /\ Len(fields[i].options) >= 1
        ELSE ~hasOptions(fields[i])

C30_NotifiedFieldsAreLocalFields ==
    /\ [](notifications > 0 => (lastNotified.fields = fields /\ survey.fields = fields))
    /\ [][ (\E text \in Texts : changeTitle(text) \/ changeDescription(text)) =>
               (lastNotified'.fields = fields /\ fields' = fields) ]_vars

\* the most recent notification carries an edited title and description together with
\* a full list of fields, one of them edited through the properties panel
C30_Witness ==
    /\ Len(fields) = MaxFields
    /\ \E i \in 1..Len(fields) : fields[i].label \in Texts
    /\ lastNotified # NoNotification
    /\ lastNotified.title # <<>>
    /\ lastNotified.fields = fields

====
